---------------------------- MODULE Spec2Model ----------------------------
(***************************************************************************)
(* A model of abtem/transfer.py: the aberration mathematics, the           *)
(* parameter store of the CTF class, its property setters, and the cached  *)
(* evaluation on a grid.                                                   *)
(*                                                                         *)
(* Number representation.  Python floats are modelled by exact integers    *)
(* and fractions; rounding is not modelled.                                *)
(*   - Angles (azimuth phi, the phiNM coefficients) are counted in ticks   *)
(*     of pi/24: a quarter turn is 12 ticks, a full turn 48.  Cos and Sin  *)
(*     are defined exactly where they are rational, at whole quarter turns.*)
(*   - A fraction is a record [num, den] with den > 0.                     *)
(***************************************************************************)
EXTENDS Integers, Sequences, FiniteSets, TLC

(***************************************************************************)
(* Module constants of transfer.py                                         *)
(***************************************************************************)
polar_symbols ==
    { "C10", "C12", "phi12",
      "C21", "phi21", "C23", "phi23",
      "C30", "C32", "phi32", "C34", "phi34",
      "C41", "phi41", "C43", "phi43", "C45", "phi45",
      "C50", "C52", "phi52", "C54", "phi54", "C56", "phi56" }

polar_aliases ==
    [ a \in { "defocus", "astigmatism", "astigmatism_angle", "coma",
              "coma_angle", "Cs", "C5" } |->
        CASE a = "defocus"           -> "C10"
          [] a = "astigmatism"       -> "C12"
          [] a = "astigmatism_angle" -> "phi12"
          [] a = "coma"              -> "C21"
          [] a = "coma_angle"        -> "phi21"
          [] a = "Cs"                -> "C30"
          [] a = "C5"                -> "C50" ]

alias_names == DOMAIN polar_aliases

setting_names ==
    { "semiangle_cutoff", "rolloff", "focal_spread", "angular_spread",
      "gaussian_spread" }

\* np.inf, the default semiangle_cutoff; larger than every angle of the model.
Infinity == 1000000

\* Python's None where a number is expected (energy: float = None) ...
None == 0

\* ... and where a name is expected.
NoName == "None"

\* No array.
NoArray == <<>>

(***************************************************************************)
(* Exact arithmetic helpers                                                *)
(***************************************************************************)
Abs(x) == IF x < 0 THEN 0 - x ELSE x

Sign(x) == IF x > 0 THEN 1 ELSE IF x < 0 THEN 0 - 1 ELSE 0

RECURSIVE GCD(_, _)
GCD(a, b) == IF b = 0 THEN a ELSE GCD(b, a % b)

\* The fraction n/d (d > 0) in lowest terms.
Frac(n, d) ==
    LET g == GCD(Abs(n), d)
    IN  [num |-> n \div g, den |-> d \div g]

FracAdd(p, q) == Frac(p.num * q.den + q.num * p.den, p.den * q.den)

\* np.sqrt on the perfect squares the model produces.
Sqrt(n) == CHOOSE r \in 0..n : r * r = n

\* a ** k for the small natural exponents the source uses.
RECURSIVE Pow(_, _)
Pow(a, k) == IF k = 0 THEN 1 ELSE a * Pow(a, k - 1)

\* pi/2 in ticks of pi/24.
QuarterTurn == 12
FullTurn == 4 * QuarterTurn

\* np.cos at whole quarter turns (ticks of pi/24).
Cos(t) ==
    CASE t % FullTurn = 0                -> 1
      [] t % FullTurn = QuarterTurn      -> 0
      [] t % FullTurn = 2 * QuarterTurn  -> 0 - 1
      [] t % FullTurn = 3 * QuarterTurn  -> 0

\* np.sin at whole quarter turns.
Sin(t) == Cos(t - QuarterTurn)

\* np.arctan2(y, x) for a vector on an axis, in ticks, in (-24, 24].
ArcTan2(y, x) ==
    CASE y = 0 /\ x >= 0 -> 0
      [] y > 0 /\ x = 0  -> QuarterTurn
      [] y = 0 /\ x < 0  -> 2 * QuarterTurn
      [] y < 0 /\ x = 0  -> 0 - QuarterTurn

(***************************************************************************)
(* Aberration mathematics (pure functions), one array element at a time.   *)
(* alpha and wavelength are integers in one length-free unit; parameters   *)
(* is a function on polar_symbols.                                         *)
(***************************************************************************)

\* The least common multiple of the factors 1/2 .. 1/6 of the five order
\* groups: the phase-error sum is carried multiplied by ChiScale.
ChiScale == 60

\* any([parameters[symbol] != 0. for symbol in symbols])
AnyNonzero(parameters, symbols) == \E symbol \in symbols : parameters[symbol] # 0

Guard1(parameters) == AnyNonzero(parameters, {"C10", "C12", "phi12"})
Guard2(parameters) == AnyNonzero(parameters, {"C21", "phi21", "C23", "phi23"})
Guard3(parameters) == AnyNonzero(parameters, {"C30", "C32", "phi32", "C34", "phi34"})
\* Guard4 testing the phases only.
Guard4_PhasesOnly(parameters) == AnyNonzero(parameters, {"phi41", "phi43", "phi45"})

\* The source lists 'phi41' twice and does not list 'phi45'.
Guard4(parameters) == AnyNonzero(parameters, {"C41", "phi41", "C43", "phi43", "C45", "phi41"})
Guard5(parameters) ==
    AnyNonzero(parameters, {"C50", "C52", "phi52", "C54", "phi54", "C56", "phi56"})

\* ChiScale * (1 / 2 * alpha2 * (C10 + C12 cos(2 (phi - phi12))))
Group1(alpha, phi, p) ==
    (ChiScale \div 2) * Pow(alpha, 2) *
        (p["C10"] + p["C12"] * Cos(2 * (phi - p["phi12"])))

Group2(alpha, phi, p) ==
    (ChiScale \div 3) * Pow(alpha, 2) * alpha *
        (p["C21"] * Cos(phi - p["phi21"]) +
         p["C23"] * Cos(3 * (phi - p["phi23"])))

Group3(alpha, phi, p) ==
    (ChiScale \div 4) * Pow(Pow(alpha, 2), 2) *
        (p["C30"] +
         p["C32"] * Cos(2 * (phi - p["phi32"])) +
         p["C34"] * Cos(4 * (phi - p["phi34"])))

Group4(alpha, phi, p) ==
    (ChiScale \div 5) * Pow(Pow(alpha, 2), 2) * alpha *
        (p["C41"] * Cos(phi - p["phi41"]) +
         p["C43"] * Cos(3 * (phi - p["phi43"])) +
         p["C45"] * Cos(5 * (phi - p["phi45"])))

Group5(alpha, phi, p) ==
    (ChiScale \div 6) * Pow(Pow(alpha, 2), 3) *
        (p["C50"] +
         p["C52"] * Cos(2 * (phi - p["phi52"])) +
         p["C54"] * Cos(4 * (phi - p["phi54"])) +
         p["C56"] * Cos(6 * (phi - p["phi56"])))

\* The value 2 pi / wavelength * array, as the fraction chi / (2 pi):
\* num = ChiScale * array, den = ChiScale * wavelength (not reduced).
calculate_polar_chi(alpha, phi, wavelength, parameters) ==
    LET a0 == 0
        a1 == IF Guard1(parameters) THEN a0 + Group1(alpha, phi, parameters) ELSE a0
        a2 == IF Guard2(parameters) THEN a1 + Group2(alpha, phi, parameters) ELSE a1
        a3 == IF Guard3(parameters) THEN a2 + Group3(alpha, phi, parameters) ELSE a2
        a4 == IF Guard4(parameters) THEN a3 + Group4(alpha, phi, parameters) ELSE a3
        a5 == IF Guard5(parameters) THEN a4 + Group5(alpha, phi, parameters) ELSE a4
    IN  [num |-> a5, den |-> ChiScale * wavelength]

\* complex_exponential(x) = exp(i x) for x = 2 pi * turns: the unit complex
\* number, named by its phase as a fraction of a turn in [0, 1).
complex_exponential(turns) ==
    Frac(turns.num % turns.den, turns.den)

\* complex_exponential(-calculate_polar_chi(...))
calculate_polar_aberrations(alpha, phi, wavelength, parameters) ==
    LET chi == calculate_polar_chi(alpha, phi, wavelength, parameters)
    IN  complex_exponential([num |-> 0 - chi.num, den |-> chi.den])

\* The aperture value .5 (1 + cos(pi x)) is named by x in [0, 1]:
\* x = 0 is the value 1, x = 1 is the value 0.
calculate_aperture(alpha, cutoff, rolloff) ==
    IF rolloff > 0
    THEN LET r == rolloff * cutoff
         IN  IF alpha > cutoff - r
             THEN IF alpha > cutoff
                  THEN Frac(1, 1)
                  ELSE Frac(alpha - cutoff + r, r)
             ELSE Frac(0, 1)
    ELSE IF alpha < cutoff THEN Frac(0, 1) ELSE Frac(1, 1)

\* exp(-(.5 pi / wavelength * focal_spread * alpha^2)^2) = exp(-pi^2 e):
\* the fraction e.
calculate_temporal_envelope(alpha, wavelength, focal_spread) ==
    Frac(Pow(focal_spread * Pow(alpha, 2), 2), 4 * Pow(wavelength, 2))

\* exp(-.5 gaussian_spread^2 alpha^2 / wavelength^2) = exp(-e): the fraction e.
calculate_gaussian_envelope(alpha, wavelength, gaussian_spread) ==
    Frac(Pow(gaussian_spread, 2) * Pow(alpha, 2), 2 * Pow(wavelength, 2))

\* dchi_dk * wavelength / (2 pi)
dchi_dk(alpha, phi, p) ==
    (p["C12"] * Cos(2 * (phi - p["phi12"])) + p["C10"]) * alpha +
    (p["C23"] * Cos(3 * (phi - p["phi23"])) +
     p["C21"] * Cos(1 * (phi - p["phi21"]))) * Pow(alpha, 2) +
    (p["C34"] * Cos(4 * (phi - p["phi34"])) +
     p["C32"] * Cos(2 * (phi - p["phi32"])) + p["C30"]) * Pow(alpha, 3) +
    (p["C45"] * Cos(5 * (phi - p["phi45"])) +
     p["C43"] * Cos(3 * (phi - p["phi43"])) +
     p["C41"] * Cos(1 * (phi - p["phi41"]))) * Pow(alpha, 4) +
    (p["C56"] * Cos(6 * (phi - p["phi56"])) +
     p["C54"] * Cos(4 * (phi - p["phi54"])) +
     p["C52"] * Cos(2 * (phi - p["phi52"])) + p["C50"]) * Pow(alpha, 5)

\* ChiScale * dchi_dphi * wavelength / (-2 pi)
dchi_dphi(alpha, phi, p) ==
    (ChiScale \div 2) * (2 * p["C12"] * Sin(2 * (phi - p["phi12"]))) * alpha +
    (ChiScale \div 3) * (3 * p["C23"] * Sin(3 * (phi - p["phi23"])) +
                         1 * p["C21"] * Sin(1 * (phi - p["phi21"]))) * Pow(alpha, 2) +
    (ChiScale \div 4) * (4 * p["C34"] * Sin(4 * (phi - p["phi34"])) +
                         2 * p["C32"] * Sin(2 * (phi - p["phi32"]))) * Pow(alpha, 3) +
    (ChiScale \div 5) * (5 * p["C45"] * Sin(5 * (phi - p["phi45"])) +
                         3 * p["C43"] * Sin(3 * (phi - p["phi43"])) +
                         1 * p["C41"] * Sin(1 * (phi - p["phi41"]))) * Pow(alpha, 4) +
    (ChiScale \div 6) * (6 * p["C56"] * Sin(6 * (phi - p["phi56"])) +
                         4 * p["C54"] * Sin(4 * (phi - p["phi54"])) +
                         2 * p["C52"] * Sin(2 * (phi - p["phi52"]))) * Pow(alpha, 5)

\* exp(-sign(s) (s / 2)^2 (dchi_dk^2 + dchi_dphi^2)) = exp(-pi^2 e):
\* the fraction e.
calculate_spatial_envelope(alpha, phi, wavelength, angular_spread, parameters) ==
    LET dk   == ChiScale * dchi_dk(alpha, phi, parameters)
        dphi == dchi_dphi(alpha, phi, parameters)
    IN  Frac(Sign(angular_spread) * Pow(angular_spread, 2) * (Pow(dk, 2) + Pow(dphi, 2)),
             Pow(ChiScale, 2) * Pow(wavelength, 2))

(***************************************************************************)
(* polar2cartesian and cartesian2polar                                     *)
(***************************************************************************)

\* defaultdict(lambda: 0, mapping)[key]
GetOrZero(mapping, key) == IF key \in DOMAIN mapping THEN mapping[key] ELSE 0

\* With K = sqrt(3 + sqrt(8)) = 1 + sqrt(2):  (1 + K^2)^2 = 24 + 16 sqrt(2)
\* = 4 (K^3 - K), so 1 / 4. * (1 + K ** 2) ** 2 / (K ** 3 - K) is 1, and
\* arctan(1 / K) = pi / 8, so 4 * np.arctan(1 / K) is a quarter turn.
K_factor == 1

four_arctan_inv_K == QuarterTurn

polar2cartesian(polar) ==
    LET P(key) == GetOrZero(polar, key)
    IN  [ C10  |-> P("C10"),
          C12a |-> (0 - P("C12")) * Cos(2 * P("phi12")),
          C12b |-> P("C12") * Sin(2 * P("phi12")),
          C21a |-> P("C21") * Sin(P("phi21")),
          C21b |-> P("C21") * Cos(P("phi21")),
          C23a |-> (0 - P("C23")) * Sin(3 * P("phi23")),
          C23b |-> P("C23") * Cos(3 * P("phi23")),
          C30  |-> P("C30"),
          C32a |-> (0 - P("C32")) * Cos(2 * P("phi32")),
          C32b |-> P("C32") * Cos(QuarterTurn - 2 * P("phi32")),
          C34a |-> P("C34") * Cos((0 - 4) * P("phi34")),
          C34b |-> K_factor * P("C34") * Cos(four_arctan_inv_K - 4 * P("phi34")) ]

\* cartesian2polar with the sign of C12 dropped.
cartesian2polar_PositiveC12(cartesian) ==
    LET X(key) == GetOrZero(cartesian, key)
    IN  [ C10   |-> X("C10"),
          C12   |-> Sqrt(Pow(X("C12a"), 2) + Pow(X("C12b"), 2)),
          phi12 |-> (0 - ArcTan2(X("C12b"), X("C12a"))) \div 2,
          C21   |-> Sqrt(Pow(X("C21a"), 2) + Pow(X("C21b"), 2)),
          phi21 |-> ArcTan2(X("C21a"), X("C21b")),
          C23   |-> Sqrt(Pow(X("C23a"), 2) + Pow(X("C23b"), 2)),
          phi23 |-> (0 - ArcTan2(X("C23a"), X("C23b"))) \div 3,
          C30   |-> X("C30"),
          C32   |-> 0 - Sqrt(Pow(X("C32a"), 2) + Pow(X("C32b"), 2)),
          phi32 |-> (0 - ArcTan2(X("C32b"), X("C32a"))) \div 2,
          C34   |-> Sqrt(Pow(X("C34a"), 2) + Pow(X("C34b"), 2)),
          phi34 |-> ArcTan2(X("C34b"), X("C34a")) \div 4 ]

cartesian2polar(cartesian) ==
    LET X(key) == GetOrZero(cartesian, key)
    IN  [ C10   |-> X("C10"),
          C12   |-> 0 - Sqrt(Pow(X("C12a"), 2) + Pow(X("C12b"), 2)),
          phi12 |-> (0 - ArcTan2(X("C12b"), X("C12a"))) \div 2,
          C21   |-> Sqrt(Pow(X("C21a"), 2) + Pow(X("C21b"), 2)),
          phi21 |-> ArcTan2(X("C21a"), X("C21b")),
          C23   |-> Sqrt(Pow(X("C23a"), 2) + Pow(X("C23b"), 2)),
          phi23 |-> (0 - ArcTan2(X("C23a"), X("C23b"))) \div 3,
          C30   |-> X("C30"),
          C32   |-> 0 - Sqrt(Pow(X("C32a"), 2) + Pow(X("C32b"), 2)),
          phi32 |-> (0 - ArcTan2(X("C32b"), X("C32a"))) \div 2,
          C34   |-> Sqrt(Pow(X("C34a"), 2) + Pow(X("C34b"), 2)),
          phi34 |-> ArcTan2(X("C34b"), X("C34a")) \div 4 ]

(***************************************************************************)
(* Collaborators of the CTF class that transfer.py imports                 *)
(***************************************************************************)

\* DTYPE(value): the conversion to the configured float type.  The model's
\* numbers are exact, and every value it uses is representable.
DTYPE(value) == value

\* Accelerator energies (keV) and energy2wavelength, in units of about 2 pm
\* (4.2 pm at 80 keV, 2.0 pm at 300 keV).
Energies == {80, 300}

energy2wavelength(e) == CASE e = 80 -> 2 [] e = 300 -> 1

\* Two grid objects; spatial_frequencies() of each (one axis is a single
\* sample, so that every angle lies on an axis).
Grids == {"g1", "g2"}

spatial_frequencies(grid) ==
    CASE grid = "g1" -> [kx |-> <<0, 1>>, ky |-> <<0>>]
      [] grid = "g2" -> [kx |-> <<0>>, ky |-> <<0, 0 - 1>>]

(***************************************************************************)
(* State of one CTF instance and of the objects it refers to               *)
(***************************************************************************)
VARIABLES
    parameters,   \* self._parameters: polar_symbols -> value
    settings,     \* self._semiangle_cutoff .. self._gaussian_spread
    energy,       \* self._accelerator.energy, None when unset
    defined,      \* per grid: extent and sampling are set
    cache,        \* self.cache: entries [key, value], oldest first
    last,         \* the last call on the instance and how it ended
    since,        \* what was called since the last successful evaluate_on_grid
    args          \* the arguments of the last call, in the runs that record them

vars == <<parameters, settings, energy, defined, cache, last, since, args>>

\* Cache(0) and Cache(2).
CacheCapacity_Zero == 1 - 1

CacheCapacity_Two == 1 + 1

\* Cache(1)
CacheCapacity == 1

default_settings ==
    [n \in setting_names |-> IF n = "semiangle_cutoff" THEN Infinity ELSE 0]

\* How many coefficients and settings differ from their defaults.
NonDefaultCount(p, s) ==
    Cardinality({n \in polar_symbols : p[n] # 0}) +
    Cardinality({n \in setting_names : s[n] # default_settings[n]})

\* The model keeps at most this many away from their defaults at a time.
MaxNonDefault == 1

WithinBounds(p, s) == NonDefaultCount(p, s) <= MaxNonDefault

phase_symbols ==
    { "phi12", "phi21", "phi23", "phi32", "phi34", "phi41", "phi43", "phi45",
      "phi52", "phi54", "phi56" }

\* Values a caller passes for a coefficient, alias or setting.
InputValues(name) ==
    IF name \in phase_symbols \/ name \in {"astigmatism_angle", "coma_angle"}
    THEN {0, QuarterTurn}
    ELSE IF name = "semiangle_cutoff" THEN {Infinity, 2}
    ELSE {0, 1}

\* A payload of Event.notify; NoPayload when a call notified nobody.
Payload(notifier, change) == [sent |-> TRUE, notifier |-> notifier, change |-> change]

NoPayload == [sent |-> FALSE, notifier |-> NoName, change |-> FALSE]

\* The record of a call: the operation, the grid it was given (evaluate_on_grid),
\* how it ended, whether the body of the function ran, whether observers were
\* notified and with which change flag, how many cache entries the call
\* removed, and what it returned.
Entry(op, grid, result, computed, payload, evicted, returned) ==
    [op |-> op, grid |-> grid, result |-> result, computed |-> computed,
     notified |-> payload.sent, change |-> payload.change,
     evicted |-> evicted, returned |-> returned]

\* No setter and no set_parameters was called since evaluate_on_grid(grid)
\* last returned, and it returned this array.
Fresh(grid, returned) ==
    [setter |-> FALSE, set_parameters |-> FALSE, grid |-> grid, returned |-> returned]

Init ==
    /\ parameters = [n \in polar_symbols |-> 0]
    /\ settings = default_settings
    /\ energy \in {None} \cup Energies
    /\ defined = [g \in Grids |-> g = "g1"]
    /\ cache = <<>>
    /\ last = Entry("init", NoName, "ok", FALSE, NoPayload, 0, NoArray)
    /\ since = Fresh(NoName, NoArray)
    /\ args = <<>>

(***************************************************************************)
(* Cache and Event                                                         *)
(***************************************************************************)
CacheHas(c, key) == \E i \in 1..Len(c) : c[i].key = key

CacheGet(c, key) == c[CHOOSE i \in 1..Len(c) : c[i].key = key].value

\* Inserting keeps the newest CacheCapacity entries: a full cache loses its
\* oldest entry.
CacheInsert(c, key, value) ==
    LET all == Append(c, [key |-> key, value |-> value])
    IN  IF Len(all) > CacheCapacity
        THEN SubSeq(all, Len(all) - CacheCapacity + 1, Len(all))
        ELSE all

\* cache_clear_callback(self.evaluate_on_grid): clears the cache whatever
\* the payload says.
cache_clear_callback(c, payload) == <<>>

\* self.changed.register(cache_clear_callback(self.evaluate_on_grid))
callbacks == <<"cache_clear_callback">>

\* Event.notify: every registered callback runs on the payload.
RECURSIVE notify(_, _, _)
notify(cbs, c, payload) ==
    IF cbs = <<>> THEN c
    ELSE notify(Tail(cbs), cache_clear_callback(c, payload), payload)

(***************************************************************************)
(* CTF.evaluate and CTF.evaluate_on_grid                                   *)
(***************************************************************************)
One == Frac(0, 1)

\* An array element: exp(-2 pi i phase) * aperture * exp(-pi^2 pi2) * exp(-gauss).
Element(phase, aperture, pi2, gauss) ==
    IF aperture = Frac(1, 1)
    THEN [phase |-> One, aperture |-> aperture, pi2 |-> One, gauss |-> One]
    ELSE [phase |-> phase, aperture |-> aperture, pi2 |-> pi2, gauss |-> gauss]

evaluate(p, s, wavelength, alpha, phi) ==
    LET aberrations == calculate_polar_aberrations(alpha, phi, wavelength, p)
        aperture ==
            IF s["semiangle_cutoff"] < Infinity
            THEN calculate_aperture(alpha, s["semiangle_cutoff"], s["rolloff"])
            ELSE One
        temporal ==
            IF s["focal_spread"] > 0
            THEN calculate_temporal_envelope(alpha, wavelength, s["focal_spread"])
            ELSE One
        spatial ==
            IF s["angular_spread"] > 0
            THEN calculate_spatial_envelope(alpha, phi, wavelength, s["angular_spread"], p)
            ELSE One
        gaussian ==
            IF s["gaussian_spread"] > 0
            THEN calculate_gaussian_envelope(alpha, wavelength, s["gaussian_spread"])
            ELSE One
    IN  Element(aberrations, aperture, FracAdd(temporal, spatial), gaussian)

\* The array evaluate_on_grid computes from the given state.
grid_array(p, s, wavelength, grid) ==
    LET k == spatial_frequencies(grid)
        alpha_x(i) == k.kx[i] * wavelength
        alpha_y(j) == k.ky[j] * wavelength
    IN  [ij \in (1..Len(k.kx)) \X (1..Len(k.ky)) |->
            evaluate(p, s, wavelength,
                     Sqrt(Pow(alpha_x(ij[1]), 2) + Pow(alpha_y(ij[2]), 2)),
                     ArcTan2(alpha_x(ij[1]), alpha_y(ij[2])))]

\* evaluate_on_grid with the two checks in the other order.
evaluate_on_grid_EnergyFirst(grid) ==
    IF energy = None
    THEN [raised |-> "energy_undefined", value |-> NoArray]
    ELSE IF ~defined[grid]
    THEN [raised |-> "grid_undefined", value |-> NoArray]
    ELSE [raised |-> NoName,
          value |-> grid_array(parameters, settings, energy2wavelength(energy), grid)]

\* The body of evaluate_on_grid: what it raises, or the array it returns.
evaluate_on_grid(grid) ==
    IF ~defined[grid]
    THEN [raised |-> "grid_undefined", value |-> NoArray]
    ELSE IF energy = None
    THEN [raised |-> "energy_undefined", value |-> NoArray]
    ELSE [raised |-> NoName,
          value |-> grid_array(parameters, settings, energy2wavelength(energy), grid)]

\* @cached_method('cache'): a cached value is returned without running the
\* body; a computed value is stored under the grid; an exception passes through.
EvaluateOnGrid(grid) ==
    /\ IF CacheHas(cache, grid)
       THEN /\ UNCHANGED cache
            /\ last' = Entry("evaluate_on_grid", grid, "ok", FALSE, NoPayload, 0,
                             CacheGet(cache, grid))
            /\ since' = Fresh(grid, CacheGet(cache, grid))
       ELSE LET r == evaluate_on_grid(grid)
                c == CacheInsert(cache, grid, r.value)
            IN  IF r.raised # NoName
                THEN /\ UNCHANGED <<cache, since>>
                     /\ last' = Entry("evaluate_on_grid", grid, r.raised, TRUE,
                                      NoPayload, 0, NoArray)
                ELSE /\ cache' = c
                     /\ last' = Entry("evaluate_on_grid", grid, "ok", TRUE,
                                      NoPayload, Len(cache) + 1 - Len(c), r.value)
                     /\ since' = Fresh(grid, r.value)
    /\ args' = <<>>
    /\ UNCHANGED <<parameters, settings, energy, defined>>

(***************************************************************************)
(* CTF.set_parameters                                                      *)
(***************************************************************************)

\* A mapping is a sequence of <<symbol, value>> pairs with distinct symbols,
\* in the order parameters.items() yields them.
all_keys == polar_symbols \cup alias_names \cup {"unknown_xyz"}

\* The symbols that mappings of two or more items are built from.
mapping_keys == {"C10", "defocus", "unknown_xyz"}

\* The longest mapping a caller passes.
MaxMapLen == 2

Items(keys) == UNION {{<<k, v>> : v \in InputValues(k)} : k \in keys}

Keys(m) == {m[i][1] : i \in 1..Len(m)}

RECURSIVE MappingsOfLen(_)
MappingsOfLen(n) ==
    IF n = 0 THEN {<<>>}
    ELSE UNION {{Append(m, item) :
                    item \in {it \in Items(mapping_keys) : it[1] \notin Keys(m)}} :
                m \in MappingsOfLen(n - 1)}

\* The mappings passed in the engine's runs: up to MaxMapLen items over
\* mapping_keys.
Mappings == UNION {MappingsOfLen(n) : n \in 0..MaxMapLen}

\* The mappings passed in the store's runs: those, and every single item.
StoreMappings == Mappings \cup {<<item>> : item \in Items(all_keys)}

\* set_parameters storing defocus without the change of sign.
RECURSIVE set_parameters_NoFlip(_, _)
set_parameters_NoFlip(p, m) ==
    IF m = <<>> THEN [parameters |-> p, raised |-> FALSE]
    ELSE LET symbol == Head(m)[1]
             value  == Head(m)[2]
         IN  IF symbol \in DOMAIN p
             THEN set_parameters_NoFlip([p EXCEPT ![symbol] = value], Tail(m))
             ELSE IF symbol \in DOMAIN polar_aliases
             THEN set_parameters_NoFlip([p EXCEPT ![polar_aliases[symbol]] = value], Tail(m))
             ELSE [parameters |-> p, raised |-> TRUE]

\* The loop of set_parameters over the items of the mapping, from the given
\* store: the store it leaves, and whether it raised ValueError.
RECURSIVE set_parameters(_, _)
set_parameters(p, m) ==
    IF m = <<>> THEN [parameters |-> p, raised |-> FALSE]
    ELSE LET symbol == Head(m)[1]
             value  == Head(m)[2]
         IN  IF symbol \in DOMAIN p
             THEN set_parameters([p EXCEPT ![symbol] = value], Tail(m))
             ELSE IF symbol = "defocus"
             THEN set_parameters([p EXCEPT ![polar_aliases[symbol]] = 0 - value], Tail(m))
             ELSE IF symbol \in DOMAIN polar_aliases
             THEN set_parameters([p EXCEPT ![polar_aliases[symbol]] = value], Tail(m))
             ELSE [parameters |-> p, raised |-> TRUE]

\* A call of set_parameters(m).  It notifies nobody.
SetParameters(m) ==
    LET r == set_parameters(parameters, m)
    IN  /\ WithinBounds(r.parameters, settings)
        /\ parameters' = r.parameters
        /\ last' = Entry("set_parameters", NoName,
                         IF r.raised THEN "ValueError" ELSE "ok",
                         FALSE, NoPayload, 0, NoArray)
        /\ since' = [since EXCEPT !.set_parameters = TRUE, !.grid = NoName,
                                  !.returned = NoArray]
        /\ UNCHANGED <<settings, energy, defined, cache>>

(***************************************************************************)
(* Property setters                                                        *)
(***************************************************************************)

\* self.notify_observers(payload): the instance's changed event notifies.
notify_observers(c, payload) == notify(callbacks, c, payload)

\* The names that parametrization_property is installed under.
parametrization_names == polar_symbols \cup (alias_names \ {"defocus"})

\* The key a parametrization property was created with.
PropertyKey(name) == IF name \in polar_symbols THEN name ELSE polar_aliases[name]

\* The properties' getters.
Get(p, name) ==
    IF name = "defocus" THEN 0 - p["C10"] ELSE p[PropertyKey(name)]

\* The parametrization setter without its notify_observers call.
ParametrizationSetter_Silent(name, value) ==
    LET key == PropertyKey(name)
        new == [parameters EXCEPT ![key] = value]
    IN  /\ WithinBounds(new, settings)
        /\ parameters' = new
        /\ last' = Entry("setter", NoName, "ok", FALSE, NoPayload, 0, NoArray)
        /\ since' = [since EXCEPT !.setter = TRUE, !.grid = NoName,
                                  !.returned = NoArray]
        /\ UNCHANGED <<settings, energy, defined, cache>>

\* instance.<name> = value for a property made by parametrization_property.
ParametrizationSetter(name, value) ==
    LET key == PropertyKey(name)
        old == Get(parameters, name)
        new == [parameters EXCEPT ![key] = value]
        payload == Payload(key, old # value)
    IN  /\ WithinBounds(new, settings)
        /\ parameters' = new
        /\ cache' = notify_observers(cache, payload)
        /\ last' = Entry("setter", NoName, "ok", FALSE, payload,
                         Len(cache) - Len(cache'), NoArray)
        /\ since' = [since EXCEPT !.setter = TRUE, !.grid = NoName,
                                  !.returned = NoArray]
        /\ UNCHANGED <<settings, energy, defined>>

\* instance.defocus = value, under @watched_property('changed'): the old
\* value is read, the setter runs, the event notifies.
DefocusSetter(value) ==
    LET old == Get(parameters, "defocus")
        new == [parameters EXCEPT !["C10"] = DTYPE(0 - value)]
        payload == Payload("defocus", old # value)
    IN  /\ WithinBounds(new, settings)
        /\ parameters' = new
        /\ cache' = notify(callbacks, cache, payload)
        /\ last' = Entry("setter", NoName, "ok", FALSE, payload,
                         Len(cache) - Len(cache'), NoArray)
        /\ since' = [since EXCEPT !.setter = TRUE, !.grid = NoName,
                                  !.returned = NoArray]
        /\ UNCHANGED <<settings, energy, defined>>

\* instance.<name> = value for one of the five optical settings, each under
\* @watched_property('changed').
SettingSetter(name, value) ==
    LET old == settings[name]
        new == [settings EXCEPT ![name] = DTYPE(value)]
        payload == Payload(name, old # value)
    IN  /\ WithinBounds(parameters, new)
        /\ settings' = new
        /\ cache' = notify(callbacks, cache, payload)
        /\ last' = Entry("setter", NoName, "ok", FALSE, payload,
                         Len(cache) - Len(cache'), NoArray)
        /\ since' = [since EXCEPT !.setter = TRUE, !.grid = NoName,
                                  !.returned = NoArray]
        /\ UNCHANGED <<parameters, energy, defined>>

(***************************************************************************)
(* The objects the instance refers to                                      *)
(***************************************************************************)

\* The accelerator's energy is set.  The CTF registered no callback on it.
SetEnergy(e) ==
    /\ energy' = e
    /\ last' = Entry("set_energy", NoName, "ok", FALSE, NoPayload, 0, NoArray)
    /\ UNCHANGED <<parameters, settings, defined, cache, since>>

\* A grid created without extent or sampling gets them.
DefineGrid(grid) ==
    /\ ~defined[grid]
    /\ defined' = [defined EXCEPT ![grid] = TRUE]
    /\ last' = Entry("define_grid", NoName, "ok", FALSE, NoPayload, 0, NoArray)
    /\ UNCHANGED <<parameters, settings, energy, cache, since>>

(***************************************************************************)
(* Specifications                                                          *)
(***************************************************************************)
\* The engine: every operation on the instance, its accelerator and grids.
Next ==
    \/ \E m \in Mappings : SetParameters(m) /\ args' = <<>>
    \/ \E name \in parametrization_names : \E value \in InputValues(name) :
          ParametrizationSetter(name, value) /\ args' = <<>>
    \/ \E value \in InputValues("defocus") : DefocusSetter(value) /\ args' = <<>>
    \/ \E name \in setting_names : \E value \in InputValues(name) :
          SettingSetter(name, value) /\ args' = <<>>
    \/ \E g \in Grids : EvaluateOnGrid(g)
    \/ \E e \in Energies : SetEnergy(e) /\ args' = <<>>
    \/ \E g \in Grids : DefineGrid(g) /\ args' = <<>>

Spec == Init /\ [][Next]_vars

\* The parameter store alone: the writes to it, each remembered.
StoreNext ==
    \/ \E m \in StoreMappings : SetParameters(m) /\ args' = m
    \/ \E name \in parametrization_names : \E value \in InputValues(name) :
          ParametrizationSetter(name, value) /\ args' = <<<<name, value>>>>
    \/ \E value \in InputValues("defocus") :
          DefocusSetter(value) /\ args' = <<<<"defocus", value>>>>

StoreInit == Init /\ energy = None

SpecStore == StoreInit /\ [][StoreNext]_vars

(***************************************************************************)
(* calculate_polar_chi on its own                                          *)
(***************************************************************************)

\* The parameter mappings passed: at most MaxNonzero coefficients are not
\* zero, a magnitude that is not zero is 1, a phase that is not zero is a
\* quarter turn.
MaxNonzero == 2

RECURSIVE ChiParameters(_)
ChiParameters(n) ==
    IF n = 0 THEN {[s \in polar_symbols |-> 0]}
    ELSE LET less == ChiParameters(n - 1)
         IN  less \cup
             UNION {{[p EXCEPT ![s] = IF s \in phase_symbols THEN QuarterTurn ELSE 1] :
                        s \in polar_symbols} : p \in less}

ChiAlphas == 0..2

ChiPhis == {0, QuarterTurn, 2 * QuarterTurn, 3 * QuarterTurn}

ChiWavelengths == {1, 2}

ChiInit ==
    /\ parameters \in ChiParameters(MaxNonzero)
    /\ settings = default_settings
    /\ energy = None
    /\ defined = [g \in Grids |-> g = "g1"]
    /\ cache = <<>>
    /\ last = Entry("init", NoName, "ok", FALSE, NoPayload, 0, NoArray)
    /\ since = Fresh(NoName, NoArray)
    /\ args = <<>>

\* calculate_polar_chi(alpha, phi, wavelength, parameters) is called.
CalculatePolarChi(alpha, phi, wavelength) ==
    /\ args' = <<alpha, phi, wavelength>>
    /\ last' = Entry("calculate_polar_chi", NoName, "ok", TRUE, NoPayload, 0,
                     calculate_polar_chi(alpha, phi, wavelength, parameters))
    /\ UNCHANGED <<parameters, settings, energy, defined, cache, since>>

ChiNext ==
    \E alpha \in ChiAlphas : \E phi \in ChiPhis : \E wavelength \in ChiWavelengths :
        CalculatePolarChi(alpha, phi, wavelength)

SpecChi == ChiInit /\ [][ChiNext]_vars

(***************************************************************************)
(* polar2cartesian followed by cartesian2polar                             *)
(***************************************************************************)

\* Magnitudes passed: the integers from -MaxMagnitude to MaxMagnitude but 0.
MaxMagnitude == 1

Magnitudes == ((0 - MaxMagnitude)..MaxMagnitude) \ {0}

\* Phases passed for a phiNM coefficient: 0 and the least angle whose M-fold
\* is a quarter turn.
ConvPhases(symbol) ==
    CASE symbol \in {"phi12", "phi32"} -> {0, QuarterTurn \div 2}
      [] symbol = "phi21"              -> {0, QuarterTurn}
      [] symbol = "phi23"              -> {0, QuarterTurn \div 3}
      [] symbol = "phi34"              -> {0, QuarterTurn \div 4}

conv_magnitudes == {"C12", "C21", "C23", "C30", "C32", "C34"}

conv_phases == {"phi12", "phi21", "phi23", "phi32", "phi34"}

ConvInputs ==
    {[s \in polar_symbols |->
        IF s \in conv_magnitudes THEN c[s]
        ELSE IF s \in conv_phases THEN f[s] ELSE 0] :
     c \in [conv_magnitudes -> Magnitudes],
     f \in {g \in [conv_phases -> 0..QuarterTurn] :
               \A s \in conv_phases : g[s] \in ConvPhases(s)}}

ConvInit ==
    /\ parameters \in ConvInputs
    /\ settings = default_settings
    /\ energy = None
    /\ defined = [g \in Grids |-> g = "g1"]
    /\ cache = <<>>
    /\ last = Entry("init", NoName, "ok", FALSE, NoPayload, 0, NoArray)
    /\ since = Fresh(NoName, NoArray)
    /\ args = <<>>

\* cartesian = polar2cartesian(ctf.parameters)
Polar2Cartesian ==
    /\ last.op = "init"
    /\ args' = <<parameters>>
    /\ last' = Entry("polar2cartesian", NoName, "ok", TRUE, NoPayload, 0,
                     polar2cartesian(parameters))
    /\ UNCHANGED <<parameters, settings, energy, defined, cache, since>>

\* polar = cartesian2polar(cartesian), on what polar2cartesian returned
Cartesian2Polar ==
    /\ last.op = "polar2cartesian"
    /\ args' = <<last.returned>>
    /\ last' = Entry("cartesian2polar", NoName, "ok", TRUE, NoPayload, 0,
                     cartesian2polar(last.returned))
    /\ UNCHANGED <<parameters, settings, energy, defined, cache, since>>

ConvNext == Polar2Cartesian \/ Cartesian2Polar

SpecConv == ConvInit /\ [][ConvNext]_vars

(***************************************************************************)
(* Properties                                                              *)
(***************************************************************************)

\* The step is a call of evaluate_on_grid that returned an array.
Evaluated == last'.op = "evaluate_on_grid" /\ last'.result = "ok"

\* C1: when set_parameters was called since evaluate_on_grid last returned,
\* the next evaluate_on_grid that returns runs its body (it recomputes
\* instead of returning the cached array).
C1_SetParametersForcesRecompute ==
    [][(since.set_parameters /\ ~since.setter /\ Evaluated) => last'.computed]_vars

\* C2: every call of a property setter (a coefficient, an alias, an optical
\* setting) notifies the observers after the value is applied, with a change
\* flag that says whether the stored value changed, and leaves the cache
\* empty, whether or not the value changed; and when a setter was called
\* since evaluate_on_grid last returned, the next evaluate_on_grid that
\* returns runs its body.
C2_SetterForcesRecompute ==
    [][/\ last'.op = "setter" =>
            /\ last'.notified
            /\ last'.change = (parameters' # parameters \/ settings' # settings)
            /\ cache' = <<>>
       /\ (since.setter /\ Evaluated) => last'.computed]_vars

\* C2 witness: a setter that assigned the value already stored emptied a
\* cache that held an entry.
C2_Witness ==
    last.op = "setter" /\ last.notified /\ ~last.change /\ last.evicted = 1

\* C3: when neither a setter nor set_parameters was called since
\* evaluate_on_grid(g) last returned, a call of evaluate_on_grid(g) returns the
\* same array without running its body, and leaves the cache as it was.
C3_RepeatedEvaluationHitsCache ==
    [][(/\ since.grid # NoName
        /\ last'.op = "evaluate_on_grid"
        /\ last'.grid = since.grid) =>
            /\ last'.result = "ok"
            /\ ~last'.computed
            /\ last'.returned = since.returned
            /\ cache' = cache]_vars

\* C3 witness: evaluate_on_grid returned an array without running its body.
C3_Witness ==
    last.op = "evaluate_on_grid" /\ last.result = "ok" /\ ~last.computed

\* C4: a call of set_parameters that raises the unrecognized-parameter error
\* leaves every coefficient as it was before the call.
C4_RejectedCallLeavesStore ==
    [][(last'.op = "set_parameters" /\ last'.result = "ValueError") =>
            parameters' = parameters]_vars

\* C5: evaluate_on_grid(grid) ends with the grid-undefined error when the grid
\* is not defined (whatever the energy), with the energy-undefined error when
\* the grid is defined and the energy is unset, and after either error it has
\* returned nothing and the cache holds no entry for the grid.
C5_UndefinedInputsRaise ==
    last.op = "evaluate_on_grid" =>
        /\ ~defined[last.grid] => last.result = "grid_undefined"
        /\ (defined[last.grid] /\ energy = None) => last.result = "energy_undefined"
        /\ last.result # "ok" =>
              /\ last.returned = NoArray
              /\ ~CacheHas(cache, last.grid)

\* C5 witness: with neither the grid defined nor the energy set, the call
\* ended with the grid-undefined error.
C5_Witness ==
    /\ last.op = "evaluate_on_grid"
    /\ last.result = "grid_undefined"
    /\ energy = None

\* C6: the cache never holds more than one entry; after evaluate_on_grid(g)
\* returned, it holds the entry of g alone; and a call for a grid other than
\* the cached one runs its body and removes the cached entry.
C6_CacheHoldsOneGrid ==
    [][/\ Len(cache') <= 1
       /\ Evaluated =>
            /\ cache' = <<[key |-> last'.grid, value |-> last'.returned]>>
            /\ (cache # <<>> /\ cache[1].key # last'.grid) =>
                  (last'.computed /\ last'.evicted = 1)]_vars

\* C6 witness: an evaluation on a second grid removed the entry of the first.
C6_Witness ==
    last.op = "evaluate_on_grid" /\ last.result = "ok" /\ last.evicted = 1

\* The coefficient a name addresses, and the value stored for a value
\* written under that name.
Canonical(name) == IF name \in alias_names THEN polar_aliases[name] ELSE name

Stored(name, value) == IF name = "defocus" THEN 0 - value ELSE value

\* C7: after a write of v under a name (set_parameters with recognised names,
\* or a property assignment), the coefficient the name addresses holds v (-v
\* for defocus) and reading the name gives v, for the last item of the call
\* that addresses that coefficient.
C7_AliasAndCanonicalAgree ==
    (last.op \in {"setter", "set_parameters"} /\ last.result = "ok") =>
        \A i \in 1..Len(args) :
            (\A j \in (i + 1)..Len(args) :
                Canonical(args[j][1]) # Canonical(args[i][1])) =>
                    /\ parameters[Canonical(args[i][1])] = Stored(args[i][1], args[i][2])
                    /\ Get(parameters, args[i][1]) = args[i][2]
                    /\ Get(parameters, Canonical(args[i][1])) =
                          Stored(args[i][1], args[i][2])

\* C7 witness: set_parameters({'defocus': 1}) left C10 = -1.
C7_Witness ==
    /\ last.op = "set_parameters"
    /\ args = <<<<"defocus", 1>>>>
    /\ parameters["C10"] = 0 - 1

\* The phase error with all five order groups evaluated.
polar_chi_unguarded(alpha, phi, wavelength, p) ==
    [num |-> Group1(alpha, phi, p) + Group2(alpha, phi, p) + Group3(alpha, phi, p) +
             Group4(alpha, phi, p) + Group5(alpha, phi, p),
     den |-> ChiScale * wavelength]

\* C8: calculate_polar_chi returns the value that evaluating all five order
\* groups gives.
C8_ZeroSkipKeepsValue ==
    last.op = "calculate_polar_chi" =>
        last.returned = polar_chi_unguarded(args[1], args[2], args[3], parameters)

\* C8 witness: phi45 is not zero, the order-4 group was skipped, and alpha is
\* not zero.
C8_Witness ==
    /\ last.op = "calculate_polar_chi"
    /\ parameters["phi45"] # 0
    /\ ~AnyNonzero(parameters, {"C41", "phi41", "C43", "phi43", "C45"})
    /\ args[1] > 0

\* C9, as stated: the round trip returns the original C12, C21, C23, C30, C32
\* and C34.
C9_RoundTripReturnsValues ==
    last.op = "cartesian2polar" =>
        \A s \in conv_magnitudes : last.returned[s] = parameters[s]

\* C9, amended: the round trip returns C30, the absolute values of C21, C23
\* and C34, and the negated absolute values of C12 and C32.
C9_RoundTripReturnsMagnitudes ==
    last.op = "cartesian2polar" =>
        /\ last.returned["C30"] = parameters["C30"]
        /\ \A s \in {"C21", "C23", "C34"} : last.returned[s] = Abs(parameters[s])
        /\ \A s \in {"C12", "C32"} : last.returned[s] = 0 - Abs(parameters[s])

\* C9 witness: a round trip from a positive C12, a negative C21 and phases
\* that are not zero.
C9_Witness ==
    /\ last.op = "cartesian2polar"
    /\ parameters["C12"] > 0
    /\ parameters["C21"] < 0
    /\ \A s \in conv_phases : parameters[s] # 0

\* Every cached array is the array a fresh evaluation of its grid gives.
CacheCoherent(c, p, s, e) ==
    e # None =>
        \A i \in 1..Len(c) :
            c[i].value = grid_array(p, s, energy2wavelength(e), c[i].key)

\* C10: a change of the accelerator's energy leaves the cache holding only
\* arrays that a fresh evaluation with the new wavelength gives.
C10_EnergyChangeKeepsCacheCoherent ==
    [][(CacheCoherent(cache, parameters, settings, energy) /\ energy' # energy) =>
            CacheCoherent(cache', parameters', settings', energy')]_vars

=============================================================================
